---- MODULE Spec2Model ----
(***************************************************************************)
(* A model of monday.py: the Scheduler date arithmetic, the recurrence     *)
(* resolver Scheduler.get_next_date and the batch loop of the main script. *)
(*                                                                         *)
(* Dates are day numbers counted from 2023-01-01 (day 0, a Sunday); the    *)
(* operators below rebuild year, month and day of month from the day       *)
(* number with the real month lengths and leap years, as datetime.date     *)
(* does.  A rule text is a sequence of tokens; a token keeps the word (in  *)
(* the spelling of the source vocabulary) and the letter case it is        *)
(* written in, so that case-insensitive matching and case-sensitive list   *)
(* lookups can disagree as they do in the source.                          *)
(***************************************************************************)
EXTENDS Integers, Sequences, FiniteSets, TLC

VARIABLES today, pc, frequency, next_time_added_date, next_date, board, idx, log

vars == <<today, pc, frequency, next_time_added_date, next_date, board, idx, log>>

-----------------------------------------------------------------------------
(* Bounds of the model. *)

\* number of days after FirstToday on which a resolution may run
TodaySpan == 125

\* the anchor date lies within AnchorSpan days of today, before or after
AnchorSpan == 8

\* number of items on the board in the batch runs
MaxItems == 3

\* number of days after FirstRunDay on which a batch may run
RunSpan == 16

-----------------------------------------------------------------------------
(* Module constants of the source. *)

SERIES ==
    <<"First", "Second", "Third", "Fourth", "Fifth", "Sixth", "Seventh",
      "Eighth", "Ninth", "Tenth", "Eleventh", "Twelfth">>

WEEKDAYS ==
    <<"Monday", "Tuesday", "Wednesday", "Thursday", "Friday", "Saturday", "Sunday">>

Range(s) == {s[i] : i \in 1..Len(s)}

-----------------------------------------------------------------------------
(* datetime.date: a proleptic Gregorian date, here a day number. *)

Years == 2023..2027

IsLeap(y) == (y % 4 = 0) /\ ((y % 100 # 0) \/ (y % 400 = 0))

DaysInMonth(y, m) ==
    IF m = 2 THEN (IF IsLeap(y) THEN 29 ELSE 28)
    ELSE IF m \in {4, 6, 9, 11} THEN 30 ELSE 31

RECURSIVE DaysBeforeYear(_)
DaysBeforeYear(y) ==
    IF y <= 2023 THEN 0
    ELSE DaysBeforeYear(y - 1) + (IF IsLeap(y - 1) THEN 366 ELSE 365)

RECURSIVE DaysBeforeMonth(_, _)
DaysBeforeMonth(y, m) ==
    IF m <= 1 THEN 0 ELSE DaysBeforeMonth(y, m - 1) + DaysInMonth(y, m - 1)

\* date(year=y, month=m, day=d)
MkDate(y, m, d) == DaysBeforeYear(y) + DaysBeforeMonth(y, m) + (d - 1)

YearOf(o) == CHOOSE y \in Years : DaysBeforeYear(y) <= o /\ o < DaysBeforeYear(y + 1)

MonthOf(o) ==
    LET y == YearOf(o)
    IN  CHOOSE m \in 1..12 :
            MkDate(y, m, 1) <= o /\ o < MkDate(y, m, 1) + DaysInMonth(y, m)

DayOf(o) == o - MkDate(YearOf(o), MonthOf(o), 1) + 1

\* date.weekday(): Monday is 0, Sunday is 6
WeekdayOf(o) == (o + 6) % 7

-----------------------------------------------------------------------------
(* Outcomes of a call: a date, None, or a raised exception. *)

DateVal(d) == [kind |-> "date", d |-> d]

NoneVal == [kind |-> "None", d |-> 0]

Raised(e) == [kind |-> e, d |-> 0]

Exceptions == {"ValueError", "TypeError", "NameError"}

IsDate(r) == r.kind = "date"

IsRaise(r) == r.kind \in Exceptions

\* date.replace(day=day): ValueError when the month has no such day
ReplaceDay(o, day) ==
    IF day < 1 \/ day > DaysInMonth(YearOf(o), MonthOf(o)) THEN Raised("ValueError")
    ELSE DateVal(MkDate(YearOf(o), MonthOf(o), day))

-----------------------------------------------------------------------------
(* Rule texts. *)

\* a word written as in the source vocabulary, in lower case, in upper case
W(s) == [w |-> s, c |-> "canon", v |-> 0]

L(s) == [w |-> s, c |-> "lower", v |-> 0]

U(s) == [w |-> s, c |-> "upper", v |-> 0]

\* a run of digits (with or without a suffix such as "st" or "th")
N(n) == [w |-> "#", c |-> "canon", v |-> n]

\* list.index(token text): the lookup is case-sensitive; the result is the
\* 0-based position, or ValueError
ListHas(list, tok) == tok.c = "canon" /\ tok.w \in Range(list)

ListIndex(list, tok) == (CHOOSE i \in 1..Len(list) : list[i] = tok.w) - 1

\* str.capitalize() of a token of the vocabulary: its capitalised spelling
Capitalize(tok) == tok.w

\* '|'.join(list)
RECURSIVE Join(_)
Join(list) ==
    IF Len(list) = 0 THEN ""
    ELSE IF Len(list) = 1 THEN list[1]
    ELSE list[1] \o "|" \o Join(Tail(list))

\* str.index(sub): the 0-based offset of the first occurrence of sub
StrIndex(str, sub) ==
    (CHOOSE i \in 1..Len(str) :
        /\ SubSeq(str, i, i + Len(sub) - 1) = sub
        /\ \A j \in 1..(i - 1) : SubSeq(str, j, j + Len(sub) - 1) # sub) - 1

-----------------------------------------------------------------------------
(* Scheduler *)

\* get_next_weekday(weekday, from_date); weekday is the text handed in
get_next_weekday(weekday, from_date) ==
    IF ~ListHas(WEEKDAYS, weekday) THEN Raised("ValueError")
    ELSE LET days_until_next ==
                 (ListIndex(WEEKDAYS, weekday) - WeekdayOf(from_date) + Len(WEEKDAYS))
                     % Len(WEEKDAYS)
         IN  DateVal(from_date + days_until_next)

get_first_day_next_month(from_date) ==
    IF MonthOf(from_date) = 12 THEN MkDate(YearOf(from_date) + 1, 1, 1)
    ELSE MkDate(YearOf(from_date), MonthOf(from_date) + 1, 1)

\* get_next_every_other_weekday skipping a week also when exactly a week
\* has passed (<= in place of <)
get_next_every_other_weekday_le(weekday, today_date, existing_date) ==
    LET next_weekday == get_next_weekday(weekday, today_date)
        days_passed  == today_date - existing_date
    IN  IF IsRaise(next_weekday) THEN next_weekday
        ELSE IF days_passed <= Len(WEEKDAYS)
             THEN DateVal(next_weekday.d + Len(WEEKDAYS))
             ELSE next_weekday

get_next_every_other_weekday(weekday, today_date, existing_date) ==
    LET next_weekday == get_next_weekday(weekday, today_date)
        days_passed  == today_date - existing_date
    IN  IF IsRaise(next_weekday) THEN next_weekday
        ELSE IF days_passed < Len(WEEKDAYS)
             THEN DateVal(next_weekday.d + Len(WEEKDAYS))
             ELSE next_weekday

\* first_weekday + timedelta(days=7 * (n - 1)), skipped when n = 1
NthFrom(first_weekday, n) ==
    IF n # 1 THEN first_weekday + Len(WEEKDAYS) * (n - 1) ELSE first_weekday

\* get_next_every_nth_weekday without the move to the next month when the
\* nth weekday has passed
get_next_every_nth_weekday_passed(weekday, today_date, n) ==
    LET first_of_month == MkDate(YearOf(today_date), MonthOf(today_date), 1)
        first_weekday  == get_next_weekday(weekday, first_of_month)
    IN  IF IsRaise(first_weekday) THEN first_weekday
        ELSE DateVal(NthFrom(first_weekday.d, n))

\* get_next_every_nth_weekday moving to the next month also when the nth
\* weekday is today (<= in place of <)
get_next_every_nth_weekday_le(weekday, today_date, n) ==
    LET first_of_month == MkDate(YearOf(today_date), MonthOf(today_date), 1)
        first_weekday  == get_next_weekday(weekday, first_of_month)
    IN  IF IsRaise(first_weekday) THEN first_weekday
        ELSE LET nth_weekday == NthFrom(first_weekday.d, n)
             IN  IF nth_weekday <= today_date
                 THEN LET first_next ==
                              get_next_weekday(weekday, get_first_day_next_month(today_date))
                      IN  DateVal(NthFrom(first_next.d, n))
                 ELSE DateVal(nth_weekday)

get_next_every_nth_weekday(weekday, today_date, n) ==
    LET first_of_month == MkDate(YearOf(today_date), MonthOf(today_date), 1)
        first_weekday  == get_next_weekday(weekday, first_of_month)
    IN  IF IsRaise(first_weekday) THEN first_weekday
        ELSE LET nth_weekday == NthFrom(first_weekday.d, n)
             IN  IF nth_weekday < today_date
                 THEN LET first_next ==
                              get_next_weekday(weekday, get_first_day_next_month(today_date))
                      IN  DateVal(NthFrom(first_next.d, n))
                 ELSE DateVal(nth_weekday)

-----------------------------------------------------------------------------
(* The patterns of get_next_date.  A search yields the captured groups of  *)
(* the leftmost match, or the empty sequence when nothing matches.         *)

NoMatch == << >>

Leftmost(S) == CHOOSE i \in S : \A j \in S : i <= j

series_5_pattern == Join(SubSeq(SERIES, 1, 5))

\* (First|..|Fifth)\s+(Monday|..|Sunday), IGNORECASE
nth_day_pattern(text) ==
    LET S == {i \in 1..(Len(text) - 1) :
                  /\ text[i].w \in Range(SubSeq(SERIES, 1, 5))
                  /\ text[i + 1].w \in Range(WEEKDAYS)}
    IN  IF S = {} THEN NoMatch ELSE <<text[Leftmost(S)], text[Leftmost(S) + 1]>>

\* (First|..|Twelfth)\s+Month, IGNORECASE
nth_month_pattern(text) ==
    LET S == {i \in 1..(Len(text) - 1) :
                  text[i].w \in Range(SERIES) /\ text[i + 1].w = "Month"}
    IN  IF S = {} THEN NoMatch ELSE <<text[Leftmost(S)]>>

\* Every\s+Other\s+(Monday|..|Sunday), IGNORECASE
other_pattern(text) ==
    LET S == {i \in 1..(Len(text) - 2) :
                  /\ text[i].w = "Every"
                  /\ text[i + 1].w = "Other"
                  /\ text[i + 2].w \in Range(WEEKDAYS)}
    IN  IF S = {} THEN NoMatch ELSE <<text[Leftmost(S) + 2]>>

\* Every\s+Last\s+(Monday|..|Sunday), IGNORECASE
last_pattern(text) ==
    LET S == {i \in 1..(Len(text) - 2) :
                  /\ text[i].w = "Every"
                  /\ text[i + 1].w = "Last"
                  /\ text[i + 2].w \in Range(WEEKDAYS)}
    IN  IF S = {} THEN NoMatch ELSE <<text[Leftmost(S) + 2]>>

\* Every\s+(Monday|..|Sunday|(,|and|or|\s*))+$, IGNORECASE: an "Every" that
\* only weekday names, commas, "and" and "or" follow up to the end
every_pattern(text) ==
    LET S == {i \in 1..(Len(text) - 1) :
                  /\ text[i].w = "Every"
                  /\ \A j \in (i + 1)..Len(text) :
                         text[j].w \in Range(WEEKDAYS) \cup {",", "and", "or"}}
    IN  IF S = {} THEN NoMatch ELSE <<text[Len(text)]>>

\* (\d+) with findall, each run of digits cast to int
day_pattern(text) ==
    LET digits == SelectSeq(text, LAMBDA t : t.w = "#")
    IN  [i \in 1..Len(digits) |-> digits[i].v]

RECURSIVE SeqMin(_)
SeqMin(s) ==
    IF Len(s) = 1 THEN s[1]
    ELSE LET m == SeqMin(Tail(s)) IN IF s[1] <= m THEN s[1] ELSE m

-----------------------------------------------------------------------------
(* get_next_date *)

\* for _ in range(n): closest_date = get_first_day_next_month(closest_date)
RECURSIVE SkipMonths(_, _)
SkipMonths(closest_date, n) ==
    IF n = 0 THEN closest_date
    ELSE SkipMonths(get_first_day_next_month(closest_date), n - 1)

\* NthMonthDate taking the last day from today's month, as the bare day
\* branch does, when the target month has no such day
NthMonthDate_today(day, n, today_date) ==
    LET closest_date == SkipMonths(MkDate(YearOf(today_date), MonthOf(today_date), 1), n)
        replaced     == ReplaceDay(closest_date, day)
    IN  IF replaced.kind = "ValueError"
        THEN DateVal(get_first_day_next_month(today_date) - 1)
        ELSE replaced

\* the nth-month branch once the day numbers are known: day of the month n
\* months ahead, the last day of that month when it has no such day
NthMonthDate(day, n, today_date) ==
    LET closest_date == SkipMonths(MkDate(YearOf(today_date), MonthOf(today_date), 1), n)
        replaced     == ReplaceDay(closest_date, day)
    IN  IF replaced.kind = "ValueError"
        THEN DateVal(get_first_day_next_month(closest_date) - 1)
        ELSE replaced

\* EveryLoop keeping the first weekday of WEEKDAYS found in the text
\* (the comparison with closest_weekday dropped)
RECURSIVE EveryLoop_first(_, _, _, _)
EveryLoop_first(text, today_date, i, closest_weekday) ==
    IF i > Len(WEEKDAYS) THEN closest_weekday
    ELSE IF \E j \in 1..Len(text) : text[j].w = WEEKDAYS[i]
         THEN LET next_weekday == get_next_weekday(W(WEEKDAYS[i]), today_date)
              IN  IF ~IsDate(closest_weekday)
                  THEN EveryLoop_first(text, today_date, i + 1, next_weekday)
                  ELSE EveryLoop_first(text, today_date, i + 1, closest_weekday)
         ELSE EveryLoop_first(text, today_date, i + 1, closest_weekday)

\* the loop over WEEKDAYS of the "Every <weekday>, ..." branch, from the
\* i-th weekday on; closest_weekday is None or a date
RECURSIVE EveryLoop(_, _, _, _)
EveryLoop(text, today_date, i, closest_weekday) ==
    IF i > Len(WEEKDAYS) THEN closest_weekday
    ELSE IF \E j \in 1..Len(text) : text[j].w = WEEKDAYS[i]
         THEN LET next_weekday == get_next_weekday(W(WEEKDAYS[i]), today_date)
              IN  IF ~IsDate(closest_weekday) \/ next_weekday.d < closest_weekday.d
                  THEN EveryLoop(text, today_date, i + 1, next_weekday)
                  ELSE EveryLoop(text, today_date, i + 1, closest_weekday)
         ELSE EveryLoop(text, today_date, i + 1, closest_weekday)

\* the try/except of the bare day branch for one day number
DayCandidate(day, today_date) ==
    LET this_month == ReplaceDay(today_date, day)
        next_month == ReplaceDay(get_first_day_next_month(today_date), day)
        last_day   == DateVal(get_first_day_next_month(today_date) - 1)
    IN  IF this_month.kind = "ValueError" THEN last_day
        ELSE IF IsRaise(this_month) THEN this_month
        ELSE IF this_month.d < today_date
             THEN (IF next_month.kind = "ValueError" THEN last_day ELSE next_month)
             ELSE this_month

\* the loop over the day numbers of the bare day branch, from the i-th on
RECURSIVE DayLoop(_, _, _, _)
DayLoop(days, today_date, i, closest_date) ==
    IF i > Len(days) THEN closest_date
    ELSE LET next_date_i == DayCandidate(days[i], today_date)
         IN  IF IsRaise(next_date_i) THEN next_date_i
             ELSE IF ~IsDate(closest_date) \/ next_date_i.d < closest_date.d
                  THEN DayLoop(days, today_date, i + 1, next_date_i)
                  ELSE DayLoop(days, today_date, i + 1, closest_date)

\* the branches below the nth-month branch
AfterNthMonth(text, existing_date, today_date) ==
    IF other_pattern(text) # NoMatch
    THEN [via |-> "other",
          out |-> IF existing_date > today_date THEN DateVal(existing_date)
                  ELSE get_next_every_other_weekday(other_pattern(text)[1],
                                                    today_date, existing_date)]
    ELSE IF last_pattern(text) # NoMatch
    THEN LET weekday        == last_pattern(text)[1]
             fourth_weekday == get_next_every_nth_weekday(weekday, today_date, 4)
             fifth_weekday  == get_next_every_nth_weekday(weekday, today_date, 5)
         IN  [via |-> "last",
              out |-> IF IsRaise(fourth_weekday) THEN fourth_weekday
                      ELSE IF fourth_weekday.d <= fifth_weekday.d THEN fourth_weekday
                      ELSE fifth_weekday]
    ELSE IF every_pattern(text) # NoMatch
    THEN [via |-> "every", out |-> EveryLoop(text, today_date, 1, NoneVal)]
    ELSE IF Len(day_pattern(text)) > 0
    THEN [via |-> "day", out |-> DayLoop(day_pattern(text), today_date, 1, NoneVal)]
    ELSE [via |-> "none", out |-> NoneVal]

\* get_next_date(frequency, existing_date), with today = date.today().
\* out is what the call returns or raises, via the branch it leaves by.
get_next_date(text, existing_date, today_date) ==
    IF nth_day_pattern(text) # NoMatch
    THEN LET match   == nth_day_pattern(text)
             n       == StrIndex(series_5_pattern, Capitalize(match[1])) + 1
             weekday == match[2]
         IN  [via |-> "nth_day",
              out |-> get_next_every_nth_weekday(weekday, today_date, n)]
    ELSE IF nth_month_pattern(text) # NoMatch
    THEN LET match == nth_month_pattern(text)
             n     == ListIndex(SERIES, W(Capitalize(match[1]))) + 1
         IN  IF existing_date > today_date
             THEN [via |-> "nth_month", out |-> DateVal(existing_date)]
             ELSE IF Len(day_pattern(text)) > 0
             THEN [via |-> "nth_month",
                   out |-> NthMonthDate(SeqMin(day_pattern(text)), n, today_date)]
             ELSE AfterNthMonth(text, existing_date, today_date)
    ELSE AfterNthMonth(text, existing_date, today_date)

-----------------------------------------------------------------------------
(* The rule texts the resolver is run on. *)

Ordinals5 == Range(SubSeq(SERIES, 1, 5))

\* "Every <ordinal> <weekday>", canonical and in other letter cases
NthDayTexts ==
    {<<W("Every"), W(o), W(d)>> : o \in Ordinals5, d \in Range(WEEKDAYS)}
        \cup {<<L("Every"), L("First"), L("Monday")>>,
              <<W("Every"), U("Third"), W("Friday")>>}

\* "Every <ordinal> Month on the <d>[ and <d>]", and without day numbers
NthMonthTexts ==
    {<<W("Every"), W(o), W("Month"), N(d)>> :
        o \in {"First", "Second", "Third", "Twelfth"}, d \in {1, 15, 29, 30, 31, 32}}
        \cup {<<W("Every"), U("Second"), L("Month"), N(31), W("and"), N(30)>>,
              <<W("Every"), W("Sixth"), W("Month"), N(15), W("and"), N(1)>>,
              <<W("Every"), W("Third"), W("Month")>>,
              <<W("Third"), W("Month"), W(","), W("Every"), W("Monday")>>}

OtherTexts ==
    {<<W("Every"), W("Other"), W(d)>> : d \in Range(WEEKDAYS)}
        \cup {<<W("Every"), W("Other"), L("Monday")>>}

LastTexts ==
    {<<W("Every"), W("Last"), W(d)>> : d \in Range(WEEKDAYS)}
        \cup {<<U("Every"), U("Last"), U("Friday")>>}

EveryTexts ==
    {<<W("Every"), W(d)>> : d \in Range(WEEKDAYS)}
        \cup {<<W("Every"), W("Monday"), W(","), W("Wednesday"), W("and"), W("Friday")>>,
              <<W("Every"), W("Saturday"), W("or"), W("Sunday")>>,
              <<L("Every"), L("Thursday")>>,
              <<W("Every"), W(",")>>}

DayTexts ==
    {<<W("The"), N(d)>> : d \in {1, 15, 29, 30, 31}}
        \cup {<<W("The"), N(1), W("and"), N(15)>>,
              <<W("The"), N(31), W("and"), N(10)>>,
              <<W("The"), N(0)>>}

OtherwiseTexts == {<<W("banana")>>, <<W("Every")>>}

Texts ==
    NthDayTexts \cup NthMonthTexts \cup OtherTexts \cup LastTexts
        \cup EveryTexts \cup DayTexts \cup OtherwiseTexts

-----------------------------------------------------------------------------
(* One call of get_next_date. *)

\* the first day a resolution may run on
FirstToday == MkDate(2023, 12, 1)

Unbound == [kind |-> "unbound", d |-> 0]

NotCalled == [via |-> "", out |-> NoneVal]

Init ==
    /\ pc = "call"
    /\ today \in FirstToday..(FirstToday + TodaySpan)
    /\ frequency \in Texts
    /\ \E k \in (0 - AnchorSpan)..AnchorSpan : next_time_added_date = DateVal(today + k)
    /\ next_date = NotCalled
    /\ board = << >>
    /\ idx = 0
    /\ log = << >>

\* next_date = Scheduler.get_next_date(frequency, next_time_added_date)
Call ==
    /\ pc = "call"
    /\ next_date' = get_next_date(frequency, next_time_added_date.d, today)
    /\ pc' = "returned"
    /\ UNCHANGED <<today, frequency, next_time_added_date, board, idx, log>>

Next == Call

Spec == Init /\ [][Next]_vars

-----------------------------------------------------------------------------
(* The batch loop of the main script over the items of the board.  An item *)
(* holds the texts of its columns: the frequency (empty when missing), the *)
(* "Next Time Added To Board" text (an ISO date, None, or a text that is   *)
(* no ISO date) and the "Due In X Days" text (a number, None, or a text    *)
(* that is no number).                                                     *)

\* the first day a batch may run on, a Monday
FirstRunDay == MkDate(2024, 2, 26)

\* a column text that date.fromisoformat rejects with ValueError
Invalid == [kind |-> "invalid", d |-> 0]

Item(text, next_time, due_in) ==
    [frequency |-> text, next_time |-> next_time, due_in |-> due_in]

ItemKinds ==
    {Item(<<W("Every"), W("Monday")>>, DateVal(FirstRunDay - 7), "number"),
     Item(<< >>, DateVal(FirstRunDay), "number"),
     Item(<<W("Every"), W("Monday")>>, NoneVal, "number"),
     Item(<<W("Every"), W("Monday")>>, Invalid, "number"),
     Item(<<W("Every"), W("Monday")>>, DateVal(FirstRunDay), "None"),
     Item(<<W("The"), N(1)>>, DateVal(FirstRunDay), "text"),
     Item(<<W("banana")>>, DateVal(FirstRunDay), "number"),
     Item(<<L("Every"), L("First"), L("Monday")>>, DateVal(FirstRunDay), "number"),
     Item(<<W("Every"), W("Other"), W("Wednesday")>>, DateVal(FirstRunDay + 2), "number")}

Boards == UNION {[1..n -> ItemKinds] : n \in 1..MaxItems}

InitBatch ==
    /\ pc = "loop"
    /\ today = FirstRunDay
    /\ board \in Boards
    /\ idx = 1
    /\ log = << >>
    /\ frequency = << >>
    /\ next_time_added_date = Unbound
    /\ next_date = NotCalled

\* what the loop body did with item idx: resolved tells whether
\* get_next_date was invoked for it
Entry(what, resolved) == [item |-> idx, what |-> what, resolved |-> resolved]

\* the loop body ends with continue, or at its last print
Continue(what, resolved) ==
    /\ log' = Append(log, Entry(what, resolved))
    /\ idx' = idx + 1
    /\ pc' = "loop"

\* an exception leaves the loop body uncaught: the script ends
Uncaught(exception, resolved) ==
    /\ log' = Append(log, Entry(exception, resolved))
    /\ idx' = idx
    /\ pc' = "crashed"

\* one iteration of "for item in board.items"
ProcessItem ==
    /\ pc = "loop"
    /\ idx <= Len(board)
    /\ LET item == board[idx]
           r    == get_next_date(item.frequency, item.next_time.d, today)
       IN  /\ frequency' = item.frequency
           /\ IF item.frequency = << >>
              THEN /\ Continue("Frequency is missing", FALSE)
                   /\ UNCHANGED <<next_time_added_date, next_date, board>>
              ELSE IF item.next_time.kind = "None"
              THEN \* date.fromisoformat(None): TypeError, not caught
                   /\ Uncaught("TypeError", FALSE)
                   /\ UNCHANGED <<next_time_added_date, next_date, board>>
              ELSE IF item.next_time.kind = "invalid"
              THEN \* the handler prints next_time_added_date, which the
                   \* failed assignment left as it was
                   /\ IF next_time_added_date = Unbound
                      THEN Uncaught("NameError", FALSE)
                      ELSE Continue("invalid date", FALSE)
                   /\ UNCHANGED <<next_time_added_date, next_date, board>>
              ELSE IF item.due_in # "number"
              THEN /\ Continue("non-numerical value", FALSE)
                   /\ next_time_added_date' = item.next_time
                   /\ UNCHANGED <<next_date, board>>
              ELSE /\ next_time_added_date' = item.next_time
                   /\ IF IsRaise(r.out)
                      THEN /\ Uncaught(r.out.kind, TRUE)
                           /\ UNCHANGED <<next_date, board>>
                      ELSE /\ next_date' = r
                           /\ IF r.out = NoneVal
                              THEN /\ Continue("does not match supported patterns", TRUE)
                                   /\ UNCHANGED board
                              ELSE /\ Continue("Updated", TRUE)
                                   /\ board' = [board EXCEPT ![idx].next_time = r.out]
    /\ UNCHANGED today

\* the for loop runs out of items and the script ends
EndOfItems ==
    /\ pc = "loop"
    /\ idx > Len(board)
    /\ pc' = "done"
    /\ UNCHANGED <<today, frequency, next_time_added_date, next_date, board, idx, log>>

\* the script is started again: a fresh process reads the board
StartRun ==
    /\ pc \in {"done", "crashed"}
    /\ pc' = "loop"
    /\ idx' = 1
    /\ log' = << >>
    /\ frequency' = << >>
    /\ next_time_added_date' = Unbound
    /\ next_date' = NotCalled
    /\ UNCHANGED <<today, board>>

\* date.today() moves on while the script is not running
DayPasses ==
    /\ pc \in {"done", "crashed"}
    /\ today < FirstRunDay + RunSpan
    /\ today' = today + 1
    /\ UNCHANGED <<pc, frequency, next_time_added_date, next_date, board, idx, log>>

NextBatch == ProcessItem \/ EndOfItems \/ StartRun \/ DayPasses

SpecBatch == InitBatch /\ [][NextBatch]_vars

\* a board with one "Every Other <weekday>" item whose anchor date falls on
\* that weekday, before, on or after the first run day
InitEveryOther ==
    /\ pc = "loop"
    /\ today = FirstRunDay
    /\ \E i \in 1..Len(WEEKDAYS), a \in (FirstRunDay - 14)..(FirstRunDay + 6) :
           /\ WeekdayOf(a) = i - 1
           /\ board = <<Item(<<W("Every"), W("Other"), W(WEEKDAYS[i])>>, DateVal(a), "number")>>
    /\ idx = 1
    /\ log = << >>
    /\ frequency = << >>
    /\ next_time_added_date = Unbound
    /\ next_date = NotCalled

SpecEveryOther == InitEveryOther /\ [][NextBatch]_vars

-----------------------------------------------------------------------------
(* One call of get_next_every_nth_weekday: frequency holds the weekday     *)
(* name, today the reference date and idx the occurrence number n, which   *)
(* get_next_date hands in as 4 and 5 and as the number of the ordinal.     *)

InitNth ==
    /\ pc = "call_nth"
    /\ today \in FirstToday..(FirstToday + TodaySpan)
    /\ \E i \in 1..Len(WEEKDAYS) : frequency = <<W(WEEKDAYS[i])>>
    /\ idx \in 1..5
    /\ next_time_added_date = Unbound
    /\ next_date = NotCalled
    /\ board = << >>
    /\ log = << >>

\* Scheduler.get_next_every_nth_weekday(weekday, today, n)
CallNth ==
    /\ pc = "call_nth"
    /\ next_date' = [via |-> "nth_weekday",
                     out |-> get_next_every_nth_weekday(frequency[1], today, idx)]
    /\ pc' = "returned_nth"
    /\ UNCHANGED <<today, frequency, next_time_added_date, board, idx, log>>

NextNth == CallNth

SpecNth == InitNth /\ [][NextNth]_vars

-----------------------------------------------------------------------------
(* The resolver on its own and inside the batch runs: single calls of      *)
(* get_next_date on every text, and the runs of the script over a board.   *)

InitAll == Init \/ InitBatch

NextAll == Call \/ ProcessItem \/ EndOfItems \/ StartRun \/ DayPasses

SpecAll == InitAll /\ [][NextAll]_vars

-----------------------------------------------------------------------------
(* The vocabulary of the specification, stated without the operators of    *)
(* the code: the claims below compare the code's results against these.    *)

Returned == pc = "returned"

\* the anchor date handed to the call
Anchor == next_time_added_date.d

\* position of a weekday or ordinal word in its list, counted from 1
Rank(list, word) == CHOOSE i \in 1..Len(list) : list[i] = word

\* the earliest date on or after from that falls on weekday number wd (0..6)
NextWeekdayOnOrAfter(wd, from) == CHOOSE d \in from..(from + 6) : WeekdayOf(d) = wd

FirstOfMonth(d) == MkDate(YearOf(d), MonthOf(d), 1)

\* months counted from year 0, to compare months across years
MonthNumber(d) == YearOf(d) * 12 + MonthOf(d)

FirstOfNextMonth(d) == CHOOSE f \in d..(d + 31) : DayOf(f) = 1 /\ MonthNumber(f) = MonthNumber(d) + 1

LastOfMonth(d) == FirstOfNextMonth(d) - 1

NthWeekdayOfMonth(wd, referenceDate, n) ==
    LET here == NextWeekdayOnOrAfter(wd, FirstOfMonth(referenceDate)) + 7 * (n - 1)
    IN  IF here < referenceDate
        THEN NextWeekdayOnOrAfter(wd, FirstOfNextMonth(referenceDate)) + 7 * (n - 1)
        ELSE here

\* day d of the month of date m, or the last day of that month
SetDayClamped(m, d) ==
    IF FirstOfMonth(m) + d - 1 > LastOfMonth(m) THEN LastOfMonth(m)
    ELSE FirstOfMonth(m) + d - 1

\* which occurrence of its weekday in its month a date is
OccurrenceInMonth(d) == ((DayOf(d) - 1) \div 7) + 1

Words(text) == {text[i].w : i \in 1..Len(text)}

CanonicalCase(text) == \A i \in 1..Len(text) : text[i].c = "canon"

\* the first of the six forms whose pattern matches the text
FirstForm(text) ==
    IF nth_day_pattern(text) # NoMatch THEN "nth_day"
    ELSE IF nth_month_pattern(text) # NoMatch THEN "nth_month"
    ELSE IF other_pattern(text) # NoMatch THEN "other"
    ELSE IF last_pattern(text) # NoMatch THEN "last"
    ELSE IF every_pattern(text) # NoMatch THEN "every"
    ELSE IF day_pattern(text) # << >> THEN "day"
    ELSE "none"

-----------------------------------------------------------------------------
(* Claims *)

\* C1: for a text with an ordinal First..Fifth immediately followed by a
\* weekday name, get_next_date returns NthWeekdayOfMonth(weekday, today, n),
\* n the rank of the ordinal; for First..Fourth that is the n-th occurrence
\* of the weekday in the month of the result.
C1_NthWeekdayOfMonth ==
    (Returned /\ FirstForm(frequency) = "nth_day" /\ CanonicalCase(frequency))
        => LET match == nth_day_pattern(frequency)
               n     == Rank(SERIES, match[1].w)
               wd    == Rank(WEEKDAYS, match[2].w) - 1
           IN  /\ next_date.out = DateVal(NthWeekdayOfMonth(wd, today, n))
               /\ n <= 4 => /\ WeekdayOf(next_date.out.d) = wd
                            /\ OccurrenceInMonth(next_date.out.d) = n

\* C2: for an "Every Last <weekday>" rule the result is the 5th occurrence
\* of the weekday when it lies in the same month as the 4th, and otherwise
\* the 4th: the last occurrence of the weekday in the month of the result.
C2_LastWeekdayOfMonth ==
    (Returned /\ FirstForm(frequency) = "last" /\ CanonicalCase(frequency))
        => LET wd     == Rank(WEEKDAYS, last_pattern(frequency)[1].w) - 1
               fourth == NthWeekdayOfMonth(wd, today, 4)
               fifth  == NthWeekdayOfMonth(wd, today, 5)
               r      == next_date.out.d
           IN  /\ IsDate(next_date.out)
               /\ r = IF MonthNumber(fifth) = MonthNumber(fourth) THEN fifth ELSE fourth
               /\ WeekdayOf(r) = wd
               /\ MonthNumber(r + 7) # MonthNumber(r)

\* the candidate of one day number d of a bare day rule
C3_Candidate(d) ==
    IF SetDayClamped(today, d) < today
    THEN SetDayClamped(FirstOfNextMonth(today), d)
    ELSE SetDayClamped(today, d)

\* C3: for a bare day-of-month rule each integer d yields day d of the
\* current month clamped to its last day, or when that is before today day
\* d of the next month clamped to the last day of the next month; the
\* result is the earliest candidate.
C3_BareDayClamped ==
    (Returned /\ FirstForm(frequency) = "day"
        /\ \A i \in 1..Len(day_pattern(frequency)) : day_pattern(frequency)[i] >= 1)
        => LET days == day_pattern(frequency)
               C    == {C3_Candidate(days[i]) : i \in 1..Len(days)}
           IN  /\ IsDate(next_date.out)
               /\ next_date.out.d \in C
               /\ \A c \in C : next_date.out.d <= c

\* C4: the form that resolves a text is decided by the text alone, the
\* first form whose pattern matches; no later form is attempted, so that a
\* date or None for a text does not depend on today or on the anchor date.
C4_FormByTextAlone ==
    Returned =>
        /\ next_date.via = FirstForm(frequency)
        /\ \A k \in (0 - AnchorSpan)..AnchorSpan :
               (get_next_date(frequency, today + k, today).out.kind = "None")
                   = (next_date.out.kind = "None")

\* C5: for an "Every Other <weekday>" item resolved run after run, each
\* run storing the date get_next_date returned as the new anchor date, two
\* successive distinct anchor dates are at least 14 days apart.
C5_TwoWeeksApart ==
    [][board'[1].next_time # board[1].next_time
          => board'[1].next_time.d - board[1].next_time.d >= 14]_vars

\* C6: for an "Every Other <weekday>" rule: the anchor date unchanged when
\* it is after today; otherwise NextWeekdayOnOrAfter(weekday, today), plus 7
\* days exactly when fewer than 7 days have passed since the anchor date.
C6_EveryOther ==
    (Returned /\ FirstForm(frequency) = "other" /\ CanonicalCase(frequency))
        => LET wd == Rank(WEEKDAYS, other_pattern(frequency)[1].w) - 1
           IN  next_date.out =
                   IF Anchor > today THEN DateVal(Anchor)
                   ELSE IF today - Anchor < 7
                        THEN DateVal(NextWeekdayOnOrAfter(wd, today) + 7)
                        ELSE DateVal(NextWeekdayOnOrAfter(wd, today))

\* an "Every Other" rule resolved on its due date, a weekday of the rule:
\* the result is a week later
C6_Witness ==
    /\ Returned
    /\ FirstForm(frequency) = "other"
    /\ CanonicalCase(frequency)
    /\ Anchor = today
    /\ WeekdayOf(today) = Rank(WEEKDAYS, other_pattern(frequency)[1].w) - 1
    /\ next_date.out = DateVal(today + 7)

\* C7: for an nth-month rule with day numbers: the anchor date unchanged
\* when it is after today; otherwise the result lies in the month exactly n
\* months after today's month and its day of month is the smallest day
\* number of the text, or the last day of that month when the month is
\* shorter.
C7_NthMonth ==
    (Returned /\ FirstForm(frequency) = "nth_month" /\ day_pattern(frequency) # << >>
        /\ \A i \in 1..Len(day_pattern(frequency)) : day_pattern(frequency)[i] >= 1)
        => LET n    == Rank(SERIES, nth_month_pattern(frequency)[1].w)
               days == day_pattern(frequency)
               D    == CHOOSE d \in Range(days) : \A e \in Range(days) : d <= e
               r    == next_date.out.d
               last == DayOf(LastOfMonth(r))
           IN  IF Anchor > today THEN next_date.out = DateVal(Anchor)
               ELSE /\ IsDate(next_date.out)
                    /\ MonthNumber(r) = MonthNumber(today) + n
                    /\ DayOf(r) = IF D <= last THEN D ELSE last

\* an nth-month rule that is due, with a day number its target month lacks,
\* resolved across the end of a year
C7_Witness ==
    /\ Returned
    /\ FirstForm(frequency) = "nth_month"
    /\ Anchor <= today
    /\ day_pattern(frequency) # << >>
    /\ IsDate(next_date.out)
    /\ YearOf(next_date.out.d) = YearOf(today) + 1
    /\ DayOf(next_date.out.d) < SeqMin(day_pattern(frequency))

\* the weekday numbers (0..6) named in a text, in any letter case
NamedWeekdays(text) == {Rank(WEEKDAYS, w) - 1 : w \in Words(text) \cap Range(WEEKDAYS)}

\* C8: for an "Every <weekday>[, <weekday>...]" rule with no ordinal the
\* result is the earliest next occurrence of a named weekday: it lies in
\* [today, today+6], falls on a named weekday, and no named weekday falls
\* on a date in [today, result-1].
C8_EveryWeekdayList ==
    (Returned /\ FirstForm(frequency) = "every" /\ NamedWeekdays(frequency) # {})
        => LET r == next_date.out.d
           IN  /\ IsDate(next_date.out)
               /\ r \in today..(today + 6)
               /\ WeekdayOf(r) \in NamedWeekdays(frequency)
               /\ \A d \in today..(r - 1) : WeekdayOf(d) \notin NamedWeekdays(frequency)

\* a rule naming several weekdays resolved on a day that is none of them,
\* where the weekday named first in the text is not the next to come
C8_Witness ==
    /\ Returned
    /\ FirstForm(frequency) = "every"
    /\ Cardinality(NamedWeekdays(frequency)) > 1
    /\ IsDate(next_date.out)
    /\ next_date.out.d > today
    /\ WeekdayOf(next_date.out.d) # Rank(WEEKDAYS, frequency[2].w) - 1

\* the text with every word in the letter case of the vocabulary
Canonically(text) == [i \in 1..Len(text) |-> [text[i] EXCEPT !.c = "canon"]]

\* C9: get_next_date never raises: its outcome is a date or None, also for
\* a text in another letter case, which resolves to the date of the
\* canonically cased text or to None.
C9_NeverRaises ==
    Returned =>
        /\ next_date.out.kind \in {"date", "None"}
        /\ \/ next_date.out = NoneVal
           \/ next_date.out = get_next_date(Canonically(frequency), Anchor, today).out

Handled ==
    {"Updated", "Frequency is missing", "invalid date", "non-numerical value",
     "does not match supported patterns"}

\* C10: no item stops the batch: when the script has ended every item of
\* the board was reached and either updated or reported and skipped; and
\* get_next_date is never invoked for an item whose anchor date could not
\* be parsed.
C10_NoItemStopsBatch ==
    /\ pc \in {"done", "crashed"}
           => \A i \in 1..Len(board) :
                  \E e \in 1..Len(log) : log[e].item = i /\ log[e].what \in Handled
    /\ \A e \in 1..Len(log) : log[e].resolved => board[log[e].item].next_time.kind = "date"

\* the n-th occurrence of weekday number wd in the month of date m, n <= 4
NthOccurrenceIn(wd, m, n) ==
    CHOOSE x \in FirstOfMonth(m)..LastOfMonth(m) :
        WeekdayOf(x) = wd /\ OccurrenceInMonth(x) = n

\* C11: for every weekday w, reference date r and n in 1..4,
\* get_next_every_nth_weekday(w, r, n) is the earliest date on or after r
\* that is the n-th occurrence of w in its own month: the one of r's month
\* when that is not before r, otherwise the one of the following month.
C11_NextNthWeekday ==
    (pc = "returned_nth" /\ idx <= 4)
        => LET wd   == Rank(WEEKDAYS, frequency[1].w) - 1
               x    == next_date.out.d
               here == NthOccurrenceIn(wd, today, idx)
           IN  /\ IsDate(next_date.out)
               /\ x >= today
               /\ WeekdayOf(x) = wd
               /\ OccurrenceInMonth(x) = idx
               /\ \A y \in today..(x - 1) :
                      ~(WeekdayOf(y) = wd /\ OccurrenceInMonth(y) = idx)
               /\ x = IF here >= today THEN here
                      ELSE NthOccurrenceIn(wd, FirstOfNextMonth(today), idx)

\* the n-th weekday of December has passed: the result is the n-th weekday
\* of January of the next year
C11_Witness ==
    /\ pc = "returned_nth"
    /\ idx <= 4
    /\ MonthOf(today) = 12
    /\ IsDate(next_date.out)
    /\ MonthOf(next_date.out.d) = 1
    /\ YearOf(next_date.out.d) = YearOf(today) + 1

\* C12: every date get_next_date returns is on or after today, whichever
\* form resolves the text (an anchor returned unchanged is after today); so
\* in a batch run the anchor date stored for an updated item is never
\* earlier than the day of the run.
C12_NotBeforeToday ==
    /\ (Returned /\ IsDate(next_date.out))
           => next_date.out.d >= today
    /\ pc = "loop"
           => /\ IsDate(next_date.out) => next_date.out.d >= today
              /\ \A e \in 1..Len(log) :
                     log[e].what = "Updated"
                         => /\ IsDate(board[log[e].item].next_time)
                            /\ board[log[e].item].next_time.d >= today

\* a later run of the script has moved the anchor date of an item that an
\* earlier run had already moved
C12_Witness ==
    /\ pc = "loop"
    /\ today > FirstRunDay + 7
    /\ \E e \in 1..Len(log) :
           /\ log[e].what = "Updated"
           /\ board[log[e].item].next_time = next_date.out
           /\ board[log[e].item].next_time.d > FirstRunDay + 14

====
